---- MODULE Spec2Model ----
(***************************************************************************)
(* Model of hw/arm/t8030.c: machine init of the T8030 board, the boot      *)
(* image layout built by T8030_memory_setup, the kernel patch engine and   *)
(* the per-core implementation-defined register bank.                      *)
(*                                                                         *)
(* Number representation.  hwaddr and uint64_t are 64-bit unsigned; TLC    *)
(* integers are 32-bit.  A 64-bit value u is held as the integer n with    *)
(* n = u (mod 2^64) and -2^31 < n < 2^31: a negative n stands for          *)
(* u = 2^64 + n (a wrapped difference).  Addition and subtraction are      *)
(* then the plain ones.  Kernel virtual addresses (0xFFFFFFF0xxxxxxxx)     *)
(* are held as their offset from 0xFFFFFFF000000000, a multiple of         *)
(* 64 KiB, so that differences of virtual addresses, vtop/ptov and the     *)
(* 64 KiB rounding are exact.                                              *)
(***************************************************************************)
EXTENDS Integers, Sequences, FiniteSets, TLC

(***************************************************************************)
(* Program constants                                                       *)
(***************************************************************************)
T8030_PHYS_BASE == \h40000000
T8030_MAX_DEVICETREE_SIZE == \h40000
TRUSTCACHE_OFFSET == \h2000000

\* 32-bit instruction words as <<high half, low half>>
RET_INST == <<\hd65f, \h03c0>>
NOP_INST == <<\hd503, \h201f>>

\* patch targets, as offsets from 0xFFFFFFF000000000
VA_rorgn_stash_range == \h07B4A53C
VA_rorgn_lockdown == \h07B4AECC
VA_gxf_enable == \h0811CE98
VA_pmap_ppl_locked_down == \h07B5A5A8

\* sizeof(struct xnu_arm64_boot_args) and sizeof(AllocatedData): the
\* structures are declared outside this file; only their 64 KiB rounding
\* enters the layout.
SIZEOF_xnu_arm64_boot_args == \h2F0
SIZEOF_AllocatedData == \h2D4C00
\* offsetof(AllocatedData, ramfb)
OFFSETOF_ramfb == 0

\* initial value of ARM64_REG_APCTL_EL1
APCTL_DEFAULT == 2

(***************************************************************************)
(* Bounds of the model                                                     *)
(***************************************************************************)
\* machine->smp.cpus
NumCpus == 2
\* how many times the machine is launched again with another ramdisk option
MaxRelaunch == 1
U64_MAX == 0 - 1

Cpus == 0 .. (NumCpus - 1)
Regs == {"ARM64_REG_HID11", "ARM64_REG_APCTL_EL1"}
\* values a guest writes into a register: 0, 1 and 2^64 - 1
RegValues == {0, 1, U64_MAX}
MmioOffsets == {0, 8}

\* kernel images: virtual base, lowest and highest virtual address, entry
\* point, and the byte pattern of the image's text
KernelFiles ==
  { [virt_base |-> \h07004000, low |-> \h07004000, high |-> \h08FF4000,
     entry |-> \h07004100, fill |-> "zero"],
    [virt_base |-> \h07004000, low |-> \h07004000, high |-> \h08805234,
     entry |-> \h07004100, fill |-> "ones"],
    [virt_base |-> \h07000000, low |-> \h07004000, high |-> \h08805234,
     entry |-> \h07008000, fill |-> "addr"],
    [virt_base |-> \h07004000, low |-> \h07004000, high |-> \h09204000,
     entry |-> \h07004100, fill |-> "addr"] }

TrustCacheSizes == {\h1000, \h12345}
Ramdisks == { [name |-> "", len |-> 0],
              [name |-> "ramdisk", len |-> 0],
              [name |-> "ramdisk", len |-> \h18001] }
RamSizes == {\h40000000, \h1000000}
DtbSizes == {\h3000, T8030_MAX_DEVICETREE_SIZE, T8030_MAX_DEVICETREE_SIZE + 1}

(***************************************************************************)
(* Helpers of xnu.h used by this file                                      *)
(***************************************************************************)
align_64k_high(addr) == ((addr + \hffff) \div \h10000) * \h10000

vtop_static(va, virt_base, phys_base) == va - virt_base + phys_base

ptov_static(pa, virt_base, phys_base) == pa - phys_base + virt_base

\* little-endian bytes of a 32-bit word (the host copies &g_xxx_inst)
InstBytes(inst) ==
  << inst[2] % 256, inst[2] \div 256, inst[1] % 256, inst[1] \div 256 >>

\* address_space_rw(as, pa, attrs, buf, len, is_write = 1)
address_space_write(mem, pa, bytes) ==
  [a \in DOMAIN mem |->
     IF a >= pa /\ a < pa + Len(bytes) THEN bytes[a - pa + 1] ELSE mem[a]]

PatchTable ==
  << [va |-> VA_rorgn_stash_range, inst |-> RET_INST],
     [va |-> VA_rorgn_lockdown, inst |-> RET_INST],
     [va |-> VA_gxf_enable, inst |-> NOP_INST],
     [va |-> VA_pmap_ppl_locked_down, inst |-> NOP_INST] >>

\* the four address_space_rw calls in order, on offsets [from .. 4]
RECURSIVE ApplyPatches(_, _, _, _)
ApplyPatches(mem, from, virt_base, phys_base) ==
  IF from > Len(PatchTable) THEN mem
  ELSE ApplyPatches(
         address_space_write(mem,
                             vtop_static(PatchTable[from].va, virt_base, phys_base),
                             InstBytes(PatchTable[from].inst)),
         from + 1, virt_base, phys_base)

\* a patch engine that writes sizeof(uint64_t) bytes per entry
T8030_patch_kernel_wide(mem, virt_base, phys_base) ==
  LET wide(i) == InstBytes(PatchTable[i].inst) \o <<0, 0, 0, 0>>
      pa(i) == vtop_static(PatchTable[i].va, virt_base, phys_base)
  IN address_space_write(
       address_space_write(
         address_space_write(
           address_space_write(mem, pa(1), wide(1)), pa(2), wide(2)),
         pa(3), wide(3)),
       pa(4), wide(4))

T8030_patch_kernel(mem, virt_base, phys_base) ==
  ApplyPatches(mem, 1, virt_base, phys_base)

\* the physical bytes that the patch engine targets
PatchBytes(virt_base, phys_base) ==
  UNION { { vtop_static(PatchTable[i].va, virt_base, phys_base) + k : k \in 0 .. 3 }
          : i \in 1 .. Len(PatchTable) }

\* the window of guest memory that is modelled: the patch targets of every
\* kernel image and the bytes around them
GuestAddrs ==
  UNION { { vtop_static(PatchTable[i].va, kf.virt_base, T8030_PHYS_BASE) + k
              : k \in (0 - 1) .. 8 }
          : i \in 1 .. Len(PatchTable), kf \in KernelFiles }

\* contents of the kernel text as arm_load_macho copies it
KernelImage(kf) ==
  [a \in GuestAddrs |->
     CASE kf.fill = "zero" -> 0
       [] kf.fill = "ones" -> 255
       [] OTHER -> a % 256]

(***************************************************************************)
(* State                                                                   *)
(***************************************************************************)
VARIABLES
  pc,                  \* position in T8030_machine_init / T8030_memory_setup
  launches,            \* how many times the machine was launched again
  prev_run,            \* layout of the previous launch (for comparison)
  \* configuration
  kernel_file, trustcache_file_size, ramdisk_filename, ramdisk_file_len,
  use_ramfb, ram_size,
  \* globals
  g_virt_base, g_phys_base,
  \* locals of T8030_memory_setup
  phys_ptr, trustcache_pa, trustcache_size, used_ram_for_blobs,
  dtb_pa, dtb_va, dtb_size, ramdisk_size, kbootargs_pa,
  top_of_kernel_data_pa, mem_size, remaining_mem_size, allocated_ram_pa,
  ramfb_pa,
  \* T8030MachineState
  tms,
  \* guest side
  guest_mem, patch_count, bootargs, ram_region, reset_registered,
  cpreg, powered_on, env, last_access

cfgvars == << kernel_file, trustcache_file_size, ramdisk_filename,
              ramdisk_file_len, use_ramfb, ram_size >>
globvars == << g_virt_base, g_phys_base >>
locvars == << phys_ptr, trustcache_pa, trustcache_size, used_ram_for_blobs,
              dtb_pa, dtb_va, dtb_size, ramdisk_size, kbootargs_pa,
              top_of_kernel_data_pa, mem_size, remaining_mem_size,
              allocated_ram_pa, ramfb_pa >>
guestvars == << guest_mem, patch_count, bootargs, ram_region, reset_registered >>
cpuvars == << cpreg, powered_on, env, last_access >>
vars == << pc, launches, prev_run, cfgvars, globvars, locvars, tms,
           guestvars, cpuvars >>

NoAccess == [kind |-> "none", cpu |-> 0, reg |-> "", addr |-> 0, value |-> 0]
NoBootArgs == [written |-> FALSE, virtBase |-> 0, physBase |-> 0, memSize |-> 0,
               topOfKernelData |-> 0, deviceTreeP |-> 0,
               deviceTreeLength |-> 0, video |-> 0]
NoRegion == [backed |-> FALSE, base |-> 0, size |-> 0]
NoRun == [valid |-> FALSE, ramdisk_name |-> "", ramdisk_len |-> 0,
          dtb_pa |-> 0, kbootargs_pa |-> 0, extra_data_pa |-> 0]
Tms0 == [kpc_pa |-> 0, ramdisk_file_dev |-> [pa |-> 0, size |-> 0],
         kbootargs_pa |-> 0, extra_data_pa |-> 0, dram_base |-> 0,
         dram_size |-> 0, firmware_loaded |-> FALSE]

\* the state of a machine object whose properties have been set and whose
\* init has not run yet
Fresh ==
  /\ pc = "machine_init"
  /\ g_virt_base = 0 /\ g_phys_base = 0
  /\ phys_ptr = 0 /\ trustcache_pa = 0 /\ trustcache_size = 0
  /\ used_ram_for_blobs = 0 /\ dtb_pa = 0 /\ dtb_va = 0 /\ dtb_size = 0
  /\ ramdisk_size = 0 /\ kbootargs_pa = 0 /\ top_of_kernel_data_pa = 0
  /\ mem_size = 0 /\ remaining_mem_size = 0 /\ allocated_ram_pa = 0
  /\ ramfb_pa = 0
  /\ tms = Tms0
  /\ guest_mem = [a \in GuestAddrs |-> 0]
  /\ patch_count = 0
  /\ bootargs = NoBootArgs
  /\ ram_region = NoRegion
  /\ reset_registered = FALSE
  /\ cpreg = [c \in Cpus |-> [r \in Regs |-> 0]]
  /\ powered_on = [c \in Cpus |-> FALSE]
  /\ env = [pc |-> 0, x0 |-> 0]
  /\ last_access = NoAccess

Init ==
  /\ Fresh
  /\ launches = 0
  /\ prev_run = NoRun
  /\ kernel_file \in KernelFiles
  /\ trustcache_file_size \in TrustCacheSizes
  /\ \E rd \in Ramdisks : ramdisk_filename = rd.name /\ ramdisk_file_len = rd.len
  /\ use_ramfb \in BOOLEAN
  /\ ram_size \in RamSizes

(***************************************************************************)
(* T8030_machine_init, up to T8030_memory_setup                            *)
(***************************************************************************)
\* T8030_add_cpregs: the initial value of each register of one core
T8030_add_cpregs(r) == IF r = "ARM64_REG_APCTL_EL1" THEN APCTL_DEFAULT ELSE 0

\* T8030_cpu_setup: every core is created, cores other than 0 start
\* powered off, every core gets its register bank
T8030_cpu_setup ==
  /\ pc = "machine_init"
  /\ cpreg' = [c \in Cpus |-> [r \in Regs |-> T8030_add_cpregs(r)]]
  /\ powered_on' = [c \in Cpus |-> (c = 0)]
  /\ pc' = "ms_begin"
  /\ UNCHANGED << launches, prev_run, cfgvars, globvars, locvars, tms,
                  guestvars, env, last_access >>

(***************************************************************************)
(* T8030_memory_setup, statement by statement                              *)
(***************************************************************************)
\* macho_file_highest_lowest_base; g_virt_base, g_phys_base, phys_ptr
MemSetup_Begin ==
  /\ pc = "ms_begin"
  /\ g_virt_base' = kernel_file.virt_base
  /\ g_phys_base' = T8030_PHYS_BASE
  /\ phys_ptr' = T8030_PHYS_BASE
  /\ pc' = "ms_trustcache"
  /\ UNCHANGED << launches, prev_run, cfgvars, trustcache_pa, trustcache_size,
                  used_ram_for_blobs, dtb_pa, dtb_va, dtb_size, ramdisk_size,
                  kbootargs_pa, top_of_kernel_data_pa, mem_size,
                  remaining_mem_size, allocated_ram_pa, ramfb_pa, tms,
                  guestvars, cpuvars >>

\* the trust cache is placed and loaded, the cursor moves past it
MemSetup_TrustCache ==
  /\ pc = "ms_trustcache"
  /\ trustcache_pa' = phys_ptr + align_64k_high(TRUSTCACHE_OFFSET)
  /\ trustcache_size' = trustcache_file_size
  /\ phys_ptr' = phys_ptr + align_64k_high(TRUSTCACHE_OFFSET)
                          + align_64k_high(trustcache_file_size)
  /\ pc' = "ms_load_kernel"
  /\ UNCHANGED << launches, prev_run, cfgvars, globvars, used_ram_for_blobs,
                  dtb_pa, dtb_va, dtb_size, ramdisk_size, kbootargs_pa,
                  top_of_kernel_data_pa, mem_size, remaining_mem_size,
                  allocated_ram_pa, ramfb_pa, tms, guestvars, cpuvars >>

\* arm_load_macho; kpc_pa; the kernel's bytes are charged to the blobs
MemSetup_LoadKernel ==
  /\ pc = "ms_load_kernel"
  /\ guest_mem' = KernelImage(kernel_file)
  /\ tms' = [tms EXCEPT !.kpc_pa =
               vtop_static(kernel_file.entry, g_virt_base, g_phys_base)]
  /\ used_ram_for_blobs' = used_ram_for_blobs
                           + (align_64k_high(kernel_file.high) - kernel_file.low)
  /\ pc' = "ms_patch"
  /\ UNCHANGED << launches, prev_run, cfgvars, globvars, phys_ptr,
                  trustcache_pa, trustcache_size, dtb_pa, dtb_va, dtb_size,
                  ramdisk_size, kbootargs_pa, top_of_kernel_data_pa, mem_size,
                  remaining_mem_size, allocated_ram_pa, ramfb_pa,
                  patch_count, bootargs, ram_region, reset_registered,
                  cpuvars >>

\* a setup that leaves out the call of the patch engine
MemSetup_PatchKernel_skipped ==
  /\ pc = "ms_patch"
  /\ pc' = "ms_dtb"
  /\ UNCHANGED << launches, prev_run, cfgvars, globvars, locvars, tms,
                  guestvars, cpuvars >>

\* T8030_patch_kernel(nsas)
MemSetup_PatchKernel ==
  /\ pc = "ms_patch"
  /\ guest_mem' = T8030_patch_kernel(guest_mem, g_virt_base, g_phys_base)
  /\ patch_count' = patch_count + 1
  /\ pc' = "ms_dtb"
  /\ UNCHANGED << launches, prev_run, cfgvars, globvars, locvars, tms,
                  bootargs, ram_region, reset_registered, cpuvars >>

\* a device-tree step that places the tree at the unrounded kernel end
MemSetup_DeviceTree_unaligned ==
  /\ pc = "ms_dtb"
  /\ LET p == vtop_static(kernel_file.high, g_virt_base, g_phys_base)
     IN /\ dtb_pa' = p
        /\ dtb_va' = ptov_static(p, g_virt_base, g_phys_base)
        /\ phys_ptr' = p + align_64k_high(T8030_MAX_DEVICETREE_SIZE)
  /\ used_ram_for_blobs' = used_ram_for_blobs
                           + align_64k_high(T8030_MAX_DEVICETREE_SIZE)
  /\ pc' = "ms_ramdisk"
  /\ UNCHANGED << launches, prev_run, cfgvars, globvars, trustcache_pa,
                  trustcache_size, dtb_size, ramdisk_size, kbootargs_pa,
                  top_of_kernel_data_pa, mem_size, remaining_mem_size,
                  allocated_ram_pa, ramfb_pa, tms, guestvars, cpuvars >>

\* the cursor is set to the end of the kernel; the device tree is placed
MemSetup_DeviceTree ==
  /\ pc = "ms_dtb"
  /\ LET p == align_64k_high(vtop_static(kernel_file.high, g_virt_base, g_phys_base))
     IN /\ dtb_pa' = p
        /\ dtb_va' = ptov_static(p, g_virt_base, g_phys_base)
        /\ phys_ptr' = p + align_64k_high(T8030_MAX_DEVICETREE_SIZE)
  /\ used_ram_for_blobs' = used_ram_for_blobs
                           + align_64k_high(T8030_MAX_DEVICETREE_SIZE)
  /\ pc' = "ms_ramdisk"
  /\ UNCHANGED << launches, prev_run, cfgvars, globvars, trustcache_pa,
                  trustcache_size, dtb_size, ramdisk_size, kbootargs_pa,
                  top_of_kernel_data_pa, mem_size, remaining_mem_size,
                  allocated_ram_pa, ramfb_pa, tms, guestvars, cpuvars >>

\* a ramdisk step without the test of ramdisk_filename
MemSetup_Ramdisk_always ==
  /\ pc = "ms_ramdisk"
  /\ LET sz == align_64k_high(ramdisk_file_len)
     IN /\ tms' = [tms EXCEPT !.ramdisk_file_dev = [pa |-> phys_ptr, size |-> sz]]
        /\ ramdisk_size' = sz
        /\ phys_ptr' = phys_ptr + sz
  /\ pc' = "ms_bootargs"
  /\ UNCHANGED << launches, prev_run, cfgvars, globvars, trustcache_pa,
                  trustcache_size, used_ram_for_blobs, dtb_pa, dtb_va,
                  dtb_size, kbootargs_pa, top_of_kernel_data_pa, mem_size,
                  remaining_mem_size, allocated_ram_pa, ramfb_pa,
                  guestvars, cpuvars >>

\* a ramdisk branch that reserves one more byte than the file holds
MemSetup_Ramdisk_plus1 ==
  /\ pc = "ms_ramdisk"
  /\ IF ramdisk_filename # ""
       THEN LET sz == align_64k_high(ramdisk_file_len + 1)
            IN /\ tms' = [tms EXCEPT !.ramdisk_file_dev = [pa |-> phys_ptr, size |-> sz]]
               /\ ramdisk_size' = sz
               /\ phys_ptr' = phys_ptr + sz
       ELSE /\ tms' = [tms EXCEPT !.ramdisk_file_dev = [pa |-> 0, size |-> 0]]
            /\ ramdisk_size' = 0
            /\ phys_ptr' = phys_ptr
  /\ pc' = "ms_bootargs"
  /\ UNCHANGED << launches, prev_run, cfgvars, globvars, trustcache_pa,
                  trustcache_size, used_ram_for_blobs, dtb_pa, dtb_va,
                  dtb_size, kbootargs_pa, top_of_kernel_data_pa, mem_size,
                  remaining_mem_size, allocated_ram_pa, ramfb_pa,
                  guestvars, cpuvars >>

\* the optional ramdisk
MemSetup_Ramdisk ==
  /\ pc = "ms_ramdisk"
  /\ IF ramdisk_filename # ""
       THEN LET sz == align_64k_high(ramdisk_file_len)
            IN /\ tms' = [tms EXCEPT !.ramdisk_file_dev = [pa |-> phys_ptr, size |-> sz]]
               /\ ramdisk_size' = sz
               /\ phys_ptr' = phys_ptr + sz
       ELSE /\ tms' = [tms EXCEPT !.ramdisk_file_dev = [pa |-> 0, size |-> 0]]
            /\ ramdisk_size' = 0
            /\ phys_ptr' = phys_ptr
  /\ pc' = "ms_bootargs"
  /\ UNCHANGED << launches, prev_run, cfgvars, globvars, trustcache_pa,
                  trustcache_size, used_ram_for_blobs, dtb_pa, dtb_va,
                  dtb_size, kbootargs_pa, top_of_kernel_data_pa, mem_size,
                  remaining_mem_size, allocated_ram_pa, ramfb_pa,
                  guestvars, cpuvars >>

\* the boot args are placed; extra_data_pa and allocated_ram_pa are the
\* cursor after them
MemSetup_BootArgs ==
  /\ pc = "ms_bootargs"
  /\ used_ram_for_blobs' = used_ram_for_blobs
                           + align_64k_high(SIZEOF_xnu_arm64_boot_args)
  /\ kbootargs_pa' = phys_ptr
  /\ phys_ptr' = phys_ptr + align_64k_high(SIZEOF_xnu_arm64_boot_args)
  /\ tms' = [tms EXCEPT !.kbootargs_pa = phys_ptr,
                        !.extra_data_pa = phys_ptr']
  /\ allocated_ram_pa' = phys_ptr'
  /\ pc' = "ms_extra"
  /\ UNCHANGED << launches, prev_run, cfgvars, globvars, trustcache_pa,
                  trustcache_size, dtb_pa, dtb_va, dtb_size, ramdisk_size,
                  top_of_kernel_data_pa, mem_size, remaining_mem_size,
                  ramfb_pa, guestvars, cpuvars >>

\* a scratch step that records the top of kernel data before reserving
MemSetup_ExtraData_early ==
  /\ pc = "ms_extra"
  /\ ramfb_pa' = IF use_ramfb THEN tms.extra_data_pa + OFFSETOF_ramfb ELSE 0
  /\ top_of_kernel_data_pa' = phys_ptr
  /\ phys_ptr' = phys_ptr + align_64k_high(SIZEOF_AllocatedData)
  /\ pc' = "ms_dram"
  /\ UNCHANGED << launches, prev_run, cfgvars, globvars, trustcache_pa,
                  trustcache_size, used_ram_for_blobs, dtb_pa, dtb_va,
                  dtb_size, ramdisk_size, kbootargs_pa, mem_size,
                  remaining_mem_size, allocated_ram_pa, tms, guestvars,
                  cpuvars >>

\* the framebuffer inside the scratch region, the scratch region itself,
\* top_of_kernel_data_pa
MemSetup_ExtraData ==
  /\ pc = "ms_extra"
  /\ ramfb_pa' = IF use_ramfb THEN tms.extra_data_pa + OFFSETOF_ramfb ELSE 0
  /\ phys_ptr' = phys_ptr + align_64k_high(SIZEOF_AllocatedData)
  /\ top_of_kernel_data_pa' = phys_ptr'
  /\ pc' = "ms_dram"
  /\ UNCHANGED << launches, prev_run, cfgvars, globvars, trustcache_pa,
                  trustcache_size, used_ram_for_blobs, dtb_pa, dtb_va,
                  dtb_size, ramdisk_size, kbootargs_pa, mem_size,
                  remaining_mem_size, allocated_ram_pa, tms, guestvars,
                  cpuvars >>

\* a size computation that measures up to the cursor after the scratch region
MemSetup_DramSize_cursor ==
  /\ pc = "ms_dram"
  /\ remaining_mem_size' = ram_size - used_ram_for_blobs
  /\ mem_size' = phys_ptr - T8030_PHYS_BASE + remaining_mem_size'
  /\ tms' = [tms EXCEPT !.dram_base = T8030_PHYS_BASE, !.dram_size = mem_size']
  /\ pc' = "ms_load_dtb"
  /\ UNCHANGED << launches, prev_run, cfgvars, globvars, phys_ptr,
                  trustcache_pa, trustcache_size, used_ram_for_blobs, dtb_pa,
                  dtb_va, dtb_size, ramdisk_size, kbootargs_pa,
                  top_of_kernel_data_pa, allocated_ram_pa, ramfb_pa,
                  guestvars, cpuvars >>

\* remaining_mem_size, mem_size, dram_base, dram_size
MemSetup_DramSize ==
  /\ pc = "ms_dram"
  /\ remaining_mem_size' = ram_size - used_ram_for_blobs
  /\ mem_size' = allocated_ram_pa - T8030_PHYS_BASE + remaining_mem_size'
  /\ tms' = [tms EXCEPT !.dram_base = T8030_PHYS_BASE, !.dram_size = mem_size']
  /\ pc' = "ms_load_dtb"
  /\ UNCHANGED << launches, prev_run, cfgvars, globvars, phys_ptr,
                  trustcache_pa, trustcache_size, used_ram_for_blobs, dtb_pa,
                  dtb_va, dtb_size, ramdisk_size, kbootargs_pa,
                  top_of_kernel_data_pa, allocated_ram_pa, ramfb_pa,
                  guestvars, cpuvars >>

\* a device-tree step without the size assertion
MemSetup_LoadDtb_unchecked ==
  /\ pc = "ms_load_dtb"
  /\ \E sz \in DtbSizes : dtb_size' = sz
  /\ pc' = "ms_setup_bootargs"
  /\ UNCHANGED << launches, prev_run, cfgvars, globvars, phys_ptr,
                  trustcache_pa, trustcache_size, used_ram_for_blobs, dtb_pa,
                  dtb_va, ramdisk_size, kbootargs_pa, top_of_kernel_data_pa,
                  mem_size, remaining_mem_size, allocated_ram_pa, ramfb_pa,
                  tms, guestvars, cpuvars >>

\* macho_load_dtb encodes the device tree and reports its size;
\* assert(dtb_size <= T8030_MAX_DEVICETREE_SIZE)
MemSetup_LoadDtb ==
  /\ pc = "ms_load_dtb"
  /\ \E sz \in DtbSizes :
       /\ dtb_size' = sz
       /\ pc' = IF sz <= T8030_MAX_DEVICETREE_SIZE
                  THEN "ms_setup_bootargs" ELSE "aborted"
  /\ UNCHANGED << launches, prev_run, cfgvars, globvars, phys_ptr,
                  trustcache_pa, trustcache_size, used_ram_for_blobs, dtb_pa,
                  dtb_va, ramdisk_size, kbootargs_pa, top_of_kernel_data_pa,
                  mem_size, remaining_mem_size, allocated_ram_pa, ramfb_pa,
                  tms, guestvars, cpuvars >>

\* macho_setup_bootargs writes the boot-args structure at kbootargs_pa
MemSetup_SetupBootargs ==
  /\ pc = "ms_setup_bootargs"
  /\ bootargs' = [written |-> TRUE,
                  virtBase |-> kernel_file.virt_base,
                  physBase |-> T8030_PHYS_BASE,
                  memSize |-> mem_size,
                  topOfKernelData |-> top_of_kernel_data_pa,
                  deviceTreeP |-> dtb_va,
                  deviceTreeLength |-> dtb_size,
                  video |-> ramfb_pa]
  /\ pc' = "ms_allocate_ram"
  /\ UNCHANGED << launches, prev_run, cfgvars, globvars, locvars, tms,
                  guest_mem, patch_count, ram_region, reset_registered,
                  cpuvars >>

\* allocate_ram(sysmem, "T8030.ram", allocated_ram_pa, remaining_mem_size)
MemSetup_AllocateRam ==
  /\ pc = "ms_allocate_ram"
  /\ ram_region' = [backed |-> TRUE, base |-> allocated_ram_pa,
                    size |-> remaining_mem_size]
  /\ pc' = "mi_finish"
  /\ UNCHANGED << launches, prev_run, cfgvars, globvars, locvars, tms,
                  guest_mem, patch_count, bootargs, reset_registered,
                  cpuvars >>

(***************************************************************************)
(* T8030_machine_init after T8030_memory_setup; reset                      *)
(***************************************************************************)
\* T8030_create_s3c_uart, T8030_bootargs_setup, qemu_register_reset
MachineInit_Finish ==
  /\ pc = "mi_finish"
  /\ tms' = [tms EXCEPT !.firmware_loaded = TRUE]
  /\ reset_registered' = TRUE
  /\ pc' = "registered"
  /\ UNCHANGED << launches, prev_run, cfgvars, globvars, locvars, guest_mem,
                  patch_count, bootargs, ram_region, cpuvars >>

\* T8030_cpu_reset: core 0 starts at the kernel entry with x0 = boot args
T8030_cpu_reset ==
  /\ pc = "registered"
  /\ reset_registered
  /\ env' = [pc |-> tms.kpc_pa, x0 |-> tms.kbootargs_pa]
  /\ pc' = "running"
  /\ UNCHANGED << launches, prev_run, cfgvars, globvars, locvars, tms,
                  guestvars, cpreg, powered_on, last_access >>

(***************************************************************************)
(* Register accesses of a running guest                                    *)
(***************************************************************************)
\* T8030_cpreg_write_<name>: MSR executed by core c
T8030_cpreg_write(c, r, value) ==
  /\ pc = "running"
  /\ powered_on[c]
  /\ cpreg' = [cpreg EXCEPT ![c][r] = value]
  /\ last_access' = [kind |-> "sysreg_write", cpu |-> c, reg |-> r,
                     addr |-> 0, value |-> value]
  /\ UNCHANGED << pc, launches, prev_run, cfgvars, globvars, locvars, tms,
                  guestvars, powered_on, env >>

\* T8030_cpreg_read_<name>: MRS executed by core c
T8030_cpreg_read(c, r) ==
  /\ pc = "running"
  /\ powered_on[c]
  /\ last_access' = [kind |-> "sysreg_read", cpu |-> c, reg |-> r,
                     addr |-> 0, value |-> cpreg[c][r]]
  /\ UNCHANGED << pc, launches, prev_run, cfgvars, globvars, locvars, tms,
                  guestvars, cpreg, powered_on, env >>

\* cpu_impl_reg_read on the window of core c: logs and returns 0
cpu_impl_reg_read(c, addr) ==
  /\ pc = "running"
  /\ last_access' = [kind |-> "mmio_read", cpu |-> c, reg |-> "",
                     addr |-> addr, value |-> 0]
  /\ UNCHANGED << pc, launches, prev_run, cfgvars, globvars, locvars, tms,
                  guestvars, cpreg, powered_on, env >>

\* cpu_impl_reg_write on the window of core c: logs, stores nothing
cpu_impl_reg_write(c, addr, data) ==
  /\ pc = "running"
  /\ last_access' = [kind |-> "mmio_write", cpu |-> c, reg |-> "",
                     addr |-> addr, value |-> data]
  /\ UNCHANGED << pc, launches, prev_run, cfgvars, globvars, locvars, tms,
                  guestvars, cpreg, powered_on, env >>

(***************************************************************************)
(* The machine is launched again with another ramdisk option               *)
(***************************************************************************)
\* T8030_set_ramdisk_filename on a new machine object, everything else as
\* before; the layout of the finished launch is kept for comparison
Relaunch ==
  /\ pc \in {"registered", "running", "aborted"}
  /\ launches < MaxRelaunch
  /\ launches' = launches + 1
  /\ prev_run' = [valid |-> TRUE, ramdisk_name |-> ramdisk_filename,
                  ramdisk_len |-> ramdisk_file_len, dtb_pa |-> dtb_pa,
                  kbootargs_pa |-> tms.kbootargs_pa,
                  extra_data_pa |-> tms.extra_data_pa]
  /\ \E rd \in Ramdisks :
       /\ << rd.name, rd.len >> # << ramdisk_filename, ramdisk_file_len >>
       /\ ramdisk_filename' = rd.name
       /\ ramdisk_file_len' = rd.len
  /\ UNCHANGED << kernel_file, trustcache_file_size, use_ramfb, ram_size >>
  /\ pc' = "machine_init"
  /\ g_virt_base' = 0 /\ g_phys_base' = 0
  /\ phys_ptr' = 0 /\ trustcache_pa' = 0 /\ trustcache_size' = 0
  /\ used_ram_for_blobs' = 0 /\ dtb_pa' = 0 /\ dtb_va' = 0 /\ dtb_size' = 0
  /\ ramdisk_size' = 0 /\ kbootargs_pa' = 0 /\ top_of_kernel_data_pa' = 0
  /\ mem_size' = 0 /\ remaining_mem_size' = 0 /\ allocated_ram_pa' = 0
  /\ ramfb_pa' = 0
  /\ tms' = Tms0
  /\ guest_mem' = [a \in GuestAddrs |-> 0]
  /\ patch_count' = 0
  /\ bootargs' = NoBootArgs
  /\ ram_region' = NoRegion
  /\ reset_registered' = FALSE
  /\ cpreg' = [c \in Cpus |-> [r \in Regs |-> 0]]
  /\ powered_on' = [c \in Cpus |-> FALSE]
  /\ env' = [pc |-> 0, x0 |-> 0]
  /\ last_access' = NoAccess

Next ==
  \/ T8030_cpu_setup
  \/ MemSetup_Begin
  \/ MemSetup_TrustCache
  \/ MemSetup_LoadKernel
  \/ MemSetup_PatchKernel
  \/ MemSetup_DeviceTree
  \/ MemSetup_Ramdisk
  \/ MemSetup_BootArgs
  \/ MemSetup_ExtraData
  \/ MemSetup_DramSize
  \/ MemSetup_LoadDtb
  \/ MemSetup_SetupBootargs
  \/ MemSetup_AllocateRam
  \/ MachineInit_Finish
  \/ T8030_cpu_reset
  \/ \E c \in Cpus, r \in Regs, v \in RegValues : T8030_cpreg_write(c, r, v)
  \/ \E c \in Cpus, r \in Regs : T8030_cpreg_read(c, r)
  \/ \E c \in Cpus, a \in MmioOffsets : cpu_impl_reg_read(c, a)
  \/ \E c \in Cpus, a \in MmioOffsets, v \in RegValues : cpu_impl_reg_write(c, a, v)
  \/ Relaunch

Spec == Init /\ [][Next]_vars

(***************************************************************************)
(* Properties                                                              *)
(***************************************************************************)
\* every region of the layout has been placed
PlacedAll ==
  pc \in {"ms_dram", "ms_load_dtb", "ms_setup_bootargs", "ms_allocate_ram",
          "mi_finish", "registered", "running", "aborted"}

\* remaining_mem_size, mem_size and dram_size have been computed
Sized ==
  pc \in {"ms_load_dtb", "ms_setup_bootargs", "ms_allocate_ram", "mi_finish",
          "registered", "running", "aborted"}

BootRegions ==
  << [base |-> T8030_PHYS_BASE,
      size |-> vtop_static(kernel_file.high, g_virt_base, g_phys_base)
               - T8030_PHYS_BASE],
     [base |-> trustcache_pa, size |-> align_64k_high(trustcache_size)],
     [base |-> dtb_pa, size |-> align_64k_high(T8030_MAX_DEVICETREE_SIZE)],
     [base |-> tms.ramdisk_file_dev.pa, size |-> ramdisk_size],
     [base |-> kbootargs_pa, size |-> align_64k_high(SIZEOF_xnu_arm64_boot_args)],
     [base |-> tms.extra_data_pa, size |-> align_64k_high(SIZEOF_AllocatedData)] >>

DtbReservedEnd == dtb_pa + align_64k_high(T8030_MAX_DEVICETREE_SIZE)

\* C1: once T8030_memory_setup has placed them, the kernel image, trust
\* cache, device tree, ramdisk, boot args and scratch data are pairwise
\* non-overlapping: A.base + A.size <= B.base or B.base + B.size <= A.base.
C1_RegionsDisjoint ==
  PlacedAll =>
    \A i, j \in 1 .. Len(BootRegions) :
      i < j => \/ BootRegions[i].base + BootRegions[i].size <= BootRegions[j].base
               \/ BootRegions[j].base + BootRegions[j].size <= BootRegions[i].base

\* C2: every region base computed by T8030_memory_setup (trust cache, device
\* tree, ramdisk when configured, boot args, scratch data) is a multiple of
\* 64 KiB.
C2_BasesAligned ==
  /\ trustcache_pa % \h10000 = 0
  /\ dtb_pa % \h10000 = 0
  /\ tms.ramdisk_file_dev.pa % \h10000 = 0
  /\ kbootargs_pa % \h10000 = 0
  /\ tms.kbootargs_pa % \h10000 = 0
  /\ tms.extra_data_pa % \h10000 = 0

C2_Witness ==
  /\ pc = "registered"
  /\ ramdisk_filename # "" /\ tms.ramdisk_file_dev.pa # 0
  /\ ramdisk_file_len % \h10000 # 0
  /\ kernel_file.high % \h10000 # 0
  /\ trustcache_file_size % \h10000 # 0

\* C3: during one run of T8030_memory_setup the cursor phys_ptr never
\* decreases from one step to the next.
C3_CursorMonotone ==
  [][pc' # "machine_init" => phys_ptr' >= phys_ptr]_vars

\* the two launches differ in the ramdisk only as "none" against "zero-length"
AbsentAgainstEmpty ==
  /\ prev_run.valid
  /\ prev_run.ramdisk_len = 0 /\ ramdisk_file_len = 0
  /\ (prev_run.ramdisk_name = "") # (ramdisk_filename = "")

\* C4: a launch without a ramdisk and a launch with a zero-length ramdisk
\* (same kernel, trust cache and RAM size) yield the same dtb_pa,
\* kbootargs_pa and extra_data_pa.
C4_AbsenceIdempotent ==
  (PlacedAll /\ AbsentAgainstEmpty) =>
     /\ dtb_pa = prev_run.dtb_pa
     /\ tms.kbootargs_pa = prev_run.kbootargs_pa
     /\ tms.extra_data_pa = prev_run.extra_data_pa

C4_Witness ==
  /\ pc = "registered" /\ AbsentAgainstEmpty
  /\ ramdisk_filename # "" /\ tms.ramdisk_file_dev.pa # 0

\* C5: a value written to a register of a core through the system-register
\* path is what the next read through that core's MMIO window returns.
C5_RoundTrip ==
  [][(/\ last_access.kind = "sysreg_write"
      /\ last_access'.kind = "mmio_read"
      /\ last_access'.cpu = last_access.cpu)
     => last_access'.value = last_access.value]_vars

\* C6: once the patch engine has run, running it again changes no byte; the
\* engine has written the 4 little-endian bytes of each replacement
\* instruction at each patch address and has left every other byte as the
\* kernel image had it.
C6_PatchIdempotent ==
  patch_count >= 1 =>
    /\ T8030_patch_kernel(guest_mem, g_virt_base, g_phys_base) = guest_mem
    /\ \A a \in GuestAddrs \ PatchBytes(g_virt_base, g_phys_base) :
         guest_mem[a] = KernelImage(kernel_file)[a]
    /\ \A i \in 1 .. Len(PatchTable), k \in 0 .. 3 :
         guest_mem[vtop_static(PatchTable[i].va, g_virt_base, g_phys_base) + k]
           = InstBytes(PatchTable[i].inst)[k + 1]

C6_Witness ==
  /\ pc = "ms_dtb" /\ patch_count = 1
  /\ kernel_file.fill = "ones"
  /\ guest_mem # KernelImage(kernel_file)

\* C7: an encoded device tree larger than T8030_MAX_DEVICETREE_SIZE aborts
\* the build: no boot args are written, no DRAM is backed, no reset handler
\* is registered; a size up to the maximum never aborts it.
C7_OversizeAborts ==
  /\ dtb_size > T8030_MAX_DEVICETREE_SIZE =>
       /\ pc = "aborted"
       /\ ~bootargs.written /\ ~ram_region.backed /\ ~reset_registered
  /\ pc = "aborted" => dtb_size > T8030_MAX_DEVICETREE_SIZE

C7_Witness ==
  /\ pc = "aborted"
  /\ dtb_size = T8030_MAX_DEVICETREE_SIZE + 1

\* C8 as stated: without a ramdisk, ramdisk pa and size are 0 and both the
\* boot args and the scratch data lie align_64k_high(sizeof(boot_args))
\* bytes after the reserved end of the device tree.
C8_Original ==
  (PlacedAll /\ ramdisk_filename = "") =>
     /\ tms.ramdisk_file_dev.pa = 0 /\ ramdisk_size = 0
     /\ kbootargs_pa = DtbReservedEnd + align_64k_high(SIZEOF_xnu_arm64_boot_args)
     /\ tms.extra_data_pa
          = DtbReservedEnd + align_64k_high(SIZEOF_xnu_arm64_boot_args)

\* C8 amended: without a ramdisk, ramdisk pa and size are 0, the boot args
\* lie exactly at the reserved end of the device tree and the scratch data
\* align_64k_high(sizeof(boot_args)) bytes after that end.
C8_NoRamdiskLayout ==
  (PlacedAll /\ ramdisk_filename = "") =>
     /\ tms.ramdisk_file_dev.pa = 0 /\ ramdisk_size = 0
     /\ tms.ramdisk_file_dev.size = 0
     /\ kbootargs_pa = DtbReservedEnd /\ tms.kbootargs_pa = DtbReservedEnd
     /\ tms.extra_data_pa
          = DtbReservedEnd + align_64k_high(SIZEOF_xnu_arm64_boot_args)

C8_Witness ==
  /\ pc = "running" /\ ramdisk_filename = ""
  /\ tms.extra_data_pa > DtbReservedEnd

\* C9 as stated: top_of_kernel_data_pa is the cursor after the boot args and
\* before the scratch data, kbootargs_pa + align_64k_high(sizeof(boot args)).
C9_Original ==
  PlacedAll =>
    top_of_kernel_data_pa
      = kbootargs_pa + align_64k_high(SIZEOF_xnu_arm64_boot_args)

\* C9 amended: top_of_kernel_data_pa is the cursor after the scratch data
\* has been reserved, extra_data_pa + align_64k_high(sizeof(AllocatedData)),
\* and that value is what the boot args carry.
C9_TopOfKernelData ==
  PlacedAll =>
    /\ top_of_kernel_data_pa
         = tms.extra_data_pa + align_64k_high(SIZEOF_AllocatedData)
    /\ top_of_kernel_data_pa = phys_ptr
    /\ bootargs.written => bootargs.topOfKernelData = top_of_kernel_data_pa

C9_Witness ==
  /\ pc = "ms_allocate_ram" /\ bootargs.written
  /\ bootargs.topOfKernelData > tms.extra_data_pa

\* C10: dram_size, also passed to the boot args, is (RAM size - used for
\* blobs) + (allocated_ram_pa - T8030_PHYS_BASE), allocated_ram_pa being the
\* cursor before the scratch data was reserved; dram_base is T8030_PHYS_BASE.
C10_DramSize ==
  Sized =>
    /\ allocated_ram_pa = phys_ptr - align_64k_high(SIZEOF_AllocatedData)
    /\ allocated_ram_pa
         = kbootargs_pa + align_64k_high(SIZEOF_xnu_arm64_boot_args)
    /\ tms.dram_size
         = (ram_size - used_ram_for_blobs) + (allocated_ram_pa - T8030_PHYS_BASE)
    /\ tms.dram_base = T8030_PHYS_BASE
    /\ bootargs.written => bootargs.memSize = tms.dram_size

C10_Witness ==
  /\ pc = "running" /\ bootargs.written
  /\ ramdisk_size > 0
  /\ ram_size > used_ram_for_blobs
  /\ bootargs.memSize > ram_size

\* C11 as stated: dram_size is the distance from T8030_PHYS_BASE to the
\* cursor after the scratch data has been reserved, plus the RAM that the
\* blobs have not consumed.
C11_Original ==
  Sized =>
    tms.dram_size
      = (phys_ptr - T8030_PHYS_BASE) + (ram_size - used_ram_for_blobs)

\* C11 amended: dram_size falls short of that sum by the rounded size of the
\* scratch data: it is measured up to the cursor before the scratch
\* reservation, where allocate_ram starts backing memory.
C11_DramSizePreScratch ==
  Sized =>
    /\ tms.dram_size + align_64k_high(SIZEOF_AllocatedData)
         = (phys_ptr - T8030_PHYS_BASE) + (ram_size - used_ram_for_blobs)
    /\ ram_region.backed =>
         /\ ram_region.base = tms.extra_data_pa
         /\ (ram_region.base - tms.dram_base) + ram_region.size = tms.dram_size

C11_Witness ==
  /\ pc = "registered" /\ ram_region.backed
  /\ phys_ptr > allocated_ram_pa
  /\ ram_size > used_ram_for_blobs

\* C12: used_ram_for_blobs is exactly what the allocator reserved for the
\* blobs placed before the scratch data, allocated_ram_pa - T8030_PHYS_BASE,
\* and hence dram_size is the configured RAM size.
C12_NoDrift ==
  Sized =>
    /\ used_ram_for_blobs = allocated_ram_pa - T8030_PHYS_BASE
    /\ tms.dram_size = ram_size

\* 64-bit unsigned order on the held residues: a negative residue stands
\* for a value of at least 2^64 - 2^31
ULE(a, b) == IF (a < 0) = (b < 0) THEN a <= b ELSE b < 0

\* the state predicates of the boot order: the patch engine has run exactly
\* once in every state from the device-tree placement on and not before, and
\* then the kernel is loaded and its entry recorded; a running core 0 has
\* the entry as PC and the boot args as x0
BootOrderState ==
  /\ patch_count <= 1
  /\ patch_count = 1 =>
       /\ pc \notin {"machine_init", "ms_begin", "ms_trustcache",
                     "ms_load_kernel", "ms_patch"}
       /\ tms.kpc_pa = vtop_static(kernel_file.entry, g_virt_base, g_phys_base)
  /\ (dtb_size # 0 \/ bootargs.written \/ reset_registered \/ pc = "running")
       => patch_count = 1
  /\ pc = "running" =>
       /\ reset_registered
       /\ env.pc = tms.kpc_pa /\ env.x0 = tms.kbootargs_pa
       /\ env.x0 = kbootargs_pa

\* the steps of the boot order: the engine runs on the loaded kernel image,
\* before the device tree is encoded, the boot args are written and the
\* reset handler is registered; the patched bytes are never written again
BootOrderStep ==
  /\ patch_count' # patch_count =>
       \/ pc' = "machine_init"
       \/ /\ patch_count' = patch_count + 1
          /\ guest_mem = KernelImage(kernel_file)
          /\ tms.kpc_pa # 0
          /\ dtb_size = 0 /\ ~bootargs.written /\ ~reset_registered
  /\ (patch_count = 1 /\ pc' # "machine_init") => guest_mem' = guest_mem

\* C13: in every machine-init run the patch table is applied exactly once,
\* after arm_load_macho and before the device tree is encoded, the boot args
\* are written, the reset handler is registered and a core runs; the reset
\* handler sets core 0's PC to kpc_pa and x0 to kbootargs_pa.
C13_PatchOrder == []BootOrderState /\ [][BootOrderStep]_vars

C13_Witness ==
  /\ pc = "running" /\ patch_count = 1
  /\ env.pc = tms.kpc_pa /\ env.pc # 0
  /\ env.x0 = tms.kbootargs_pa /\ env.x0 # 0
  /\ guest_mem # KernelImage(kernel_file)

\* C14: the RAM backed by allocate_ram, ram_size - used_ram_for_blobs, is
\* computed without 64-bit wraparound and is at most the configured RAM
\* size, and the backed range ends at dram_base + dram_size.
C14_NoWrap ==
  ram_region.backed =>
    /\ ULE(used_ram_for_blobs, ram_size)
    /\ ULE(ram_region.size, ram_size)
    /\ (ram_region.base - tms.dram_base) + ram_region.size = tms.dram_size

====
